---- MODULE Spec2Model ----
(***************************************************************************)
(* Model of the pi-nas OLED status daemon: the TTL cache of the data       *)
(* sources (sources/base.py and its three subclasses), the data context    *)
(* (context.py), the alarm cooldown state and the alarm conditions         *)
(* (alarms.py), the view decision of the home page (pages/home.py) and the *)
(* navigation between pages by the button and the main loop (main.py).     *)
(*                                                                         *)
(* Time is an integer number of seconds; time.time() is the variable       *)
(* clock and time.monotonic() the variable mono.                           *)
(***************************************************************************)
EXTENDS Integers, FiniteSets, Sequences, TLC

\* ------------------------------------------------------------------ bounds
MaxTime == 1        \* the clock runs over 0..MaxTime
MaxTTL == 2         \* get() is called with ttl_s in 1..MaxTTL
MaxCooldown == 2    \* AlarmState is built with cooldown_seconds in 1..MaxCooldown
MaxAlarmTime == 5   \* the clock bound of the alarm specifications
MaxMono == 4        \* time.monotonic() runs over 0..MaxMono
NavTimeout == 2     \* config.NAV_TIMEOUT, in steps of time.monotonic()
MaxPresses == 6     \* button presses in one stretch of browsing

\* --------------------------------------------------------------- constants
Sources == {"glances", "mdadm", "system"}

\* The keys the program asks each source for.
KeysOf(s) ==
    CASE s = "glances" -> {"smart"}
      [] s = "mdadm"   -> {"status", "name"}
      [] s = "system"  -> {"uptime"}

AllKeys == UNION {KeysOf(s) : s \in Sources}

\* every (source, key) pair
AllPairs == {p \in Sources \X AllKeys : p[2] \in KeysOf(p[1])}

TTLs == 1..MaxTTL

None == "None"              \* Python's None
EmptyDict == "{}"           \* Python's {}
NoDataValues == {None, EmptyDict}

AlarmIds == {"raid_degraded", "raid_resync"}
NoStamp == -1               \* alarm_id not in last_alert

VARIABLES
    clock,        \* time.time()
    cache,        \* cache[s]: CachedDataSource._cache of source s (a dict)
    timestamps,   \* timestamps[s]: CachedDataSource._timestamps of source s
    md_name,      \* MdadmSource._md_name
    call,         \* the most recent get/invalidate call and its outcome
    invalidated,  \* (source, key) pairs invalidated since their last get
    cooldown,     \* AlarmState.cooldown
    last_alert,   \* AlarmState.last_alert (a dict alarm_id -> timestamp)
    acall,        \* the most recent should_alert/clear call and its outcome
    fired,        \* fired[id]: time of the last should_alert(id) that returned
                  \* True with no clear(id) since, or NoStamp
    obs,          \* what the most recent alarms.check got from the sources
    beeps,        \* the buzzer.pattern calls of the most recent alarms.check
    episode,      \* the resync episode the alarm ticks are in, if any, and
                  \* the raid_resync patterns emitted since it began
    home,         \* the most recent pages.home.render: the status it got and
                  \* the views it drew
    current_page, \* main.current_page
    last_nav_at,  \* main.last_nav_at
    mono,         \* time.monotonic()
    frame,        \* Display._frame
    loop,         \* the main loop: where it is and its locals now_mono, page
                  \* and nav_at
    btn,          \* the GPIO callback thread: where on_button is, and
                  \* whether its write changed the value of last_nav_at
    shown,        \* what the most recent tick handed to display.render
    presses,      \* button presses since current_page was last -1
    seen,         \* while the loop takes its snapshot: whether there has
                  \* been an instant at which current_page was the value the
                  \* loop read, last_nav_at was what it is now, and no press
                  \* was under way (last_nav_at never decreases, so such an
                  \* instant lies after the last change of its value)
    life,         \* the process: where main is outside its loop, which
                  \* devices are set up and what shutdown has done
    sounded       \* sounded[id]: the pattern that went with the stamp of id

vars == <<clock, cache, timestamps, md_name, call, invalidated,
          cooldown, last_alert, acall, fired, obs, beeps, episode,
          home, current_page, last_nav_at, mono, frame, loop, btn, shown,
          presses, seen, life, sounded>>

cacheVars == <<cache, timestamps, md_name, call, invalidated>>
alarmVars == <<cooldown, last_alert, acall, fired>>
engineVars == <<obs, beeps, episode, sounded>>
navVars == <<current_page, last_nav_at, mono, frame, loop, btn, shown,
             presses, seen>>
uiVars == <<home, navVars, life>>

\* ------------------------------------------------------------ dict helpers
EmptyMap == [x \in {} |-> None]

\* d[k] = v
Put(d, k, v) == [x \in (DOMAIN d) \cup {k} |-> IF x = k THEN v ELSE d[x]]

\* d.pop(k, None), the resulting dict: everything dropped
PopAll(d, k) == EmptyMap

\* d.pop(k, None), the resulting dict: nothing dropped
PopNoop(d, k) == d

\* d.pop(k, None), the resulting dict
Pop(d, k) == [x \in (DOMAIN d) \ {k} |-> d[x]]

\* ------------------------------------------------------------ the sources
\* MdadmSource.md_name together with _resolve_md_name: the values _md_name
\* can hold after the property was read.
ResolvedNames == IF md_name = None THEN {None, "md0"} ELSE {md_name}

\* The outcomes of one _fetch(k) on source s: whether it raised, the value
\* it returned, and _md_name afterwards.
Outcome(r, v, m) == [raised |-> r, value |-> v, md |-> m]

GlancesFetch(k) == {Outcome(FALSE, v, md_name) : v \in {None, "smart"}}

MdadmFetch(k) ==
    IF k = "status"
    THEN UNION {
           IF m = None
           THEN {Outcome(FALSE, EmptyDict, m)}
           ELSE {Outcome(FALSE, "status", m), Outcome(TRUE, None, m)}
           : m \in ResolvedNames}
    ELSE IF k = "name"
    THEN {Outcome(FALSE, m, m) : m \in ResolvedNames}
    ELSE {Outcome(FALSE, None, md_name)}

SystemFetch(k) ==
    IF k = "uptime"
    THEN {Outcome(FALSE, v, md_name) : v \in {None, "up"}}
    ELSE {Outcome(FALSE, None, md_name)}

Fetch(s, k) ==
    CASE s = "glances" -> GlancesFetch(k)
      [] s = "mdadm"   -> MdadmFetch(k)
      [] s = "system"  -> SystemFetch(k)

\* ---------------------------------------------------- CachedDataSource.get
\* The record of a call: its arguments, whether the key was cached when the
\* call was made, the value it returned, the (source, key) pairs it invoked
\* _fetch for, whether it raised.
\* n flips on every call.
NoCall == [op |-> "none", src |-> "-", key |-> "-", ttl |-> 0, had |-> FALSE,
           ret |-> None, fetched |-> {}, raised |-> FALSE, n |-> 0]

CallRec(o, s, k, t, r, f, x) ==
    [op |-> o, src |-> s, key |-> k, ttl |-> t,
     had |-> (s \in Sources /\ k \in DOMAIN cache[s]),
     ret |-> r, fetched |-> f, raised |-> x, n |-> 1 - call.n]

\* the cache check: a hit younger or as old as ttl_s
FreshInclusive(s, k, t, now) ==
    k \in DOMAIN cache[s] /\ now - timestamps[s][k] <= t

\* the cache check: the largest TTL instead of the caller's
FreshStoredTTL(s, k, t, now) ==
    k \in DOMAIN cache[s] /\ now - timestamps[s][k] < MaxTTL

\* the cache check: a hit younger than ttl_s
Fresh(s, k, t, now) ==
    k \in DOMAIN cache[s] /\ now - timestamps[s][k] < t

\* self._cache[key] = value, skipping values that carry no data
CacheAfterStoreSkipNoData(s, k, v) ==
    IF v \in NoDataValues THEN cache
    ELSE [cache EXCEPT ![s] = Put(@, k, v)]

\* self._cache[key] = value
CacheAfterStore(s, k, v) == [cache EXCEPT ![s] = Put(@, k, v)]

\* self._timestamps[key] = now
TimestampsAfterStore(s, k, now) == [timestamps EXCEPT ![s] = Put(@, k, now)]

\* self._timestamps when _fetch raised, had the stamp been written before
\* the fetch
TimestampsAfterRaiseStamped(s, k, now) == TimestampsAfterStore(s, k, now)

\* self._timestamps when _fetch raised: the assignments after the fetch are
\* not reached
TimestampsAfterRaise(s, k, now) == timestamps

Get(s, k, t) ==
    LET now == clock IN
    /\ invalidated' = invalidated \ {<<s, k>>}
    /\ UNCHANGED <<clock, alarmVars, engineVars, uiVars>>
    /\ IF Fresh(s, k, t, now)
       THEN /\ call' = CallRec("get", s, k, t, cache[s][k], {}, FALSE)
            /\ UNCHANGED <<cache, timestamps, md_name>>
       ELSE \E o \in Fetch(s, k) :
              /\ md_name' = o.md
              /\ IF o.raised
                 THEN /\ call' = CallRec("get", s, k, t, None, {<<s, k>>}, TRUE)
                      /\ timestamps' = TimestampsAfterRaise(s, k, now)
                      /\ UNCHANGED cache
                 ELSE /\ cache' = CacheAfterStore(s, k, o.value)
                      /\ timestamps' = TimestampsAfterStore(s, k, now)
                      /\ call' = CallRec("get", s, k, t, o.value, {<<s, k>>}, FALSE)

\* --------------------------------------------- CachedDataSource.invalidate
Invalidate(s, k) ==
    /\ cache' = [cache EXCEPT ![s] = Pop(@, k)]
    /\ timestamps' = [timestamps EXCEPT ![s] = Pop(@, k)]
    /\ invalidated' = invalidated \cup {<<s, k>>}
    /\ call' = CallRec("invalidate", s, k, 0, None, {}, FALSE)
    /\ UNCHANGED <<clock, md_name, alarmVars, engineVars, uiVars>>

\* invalidate() with key None
InvalidateSource(s) ==
    /\ cache' = [cache EXCEPT ![s] = EmptyMap]
    /\ timestamps' = [timestamps EXCEPT ![s] = EmptyMap]
    /\ invalidated' = invalidated \cup {<<s, k>> : k \in KeysOf(s)}
    /\ call' = CallRec("invalidate", s, None, 0, None, {}, FALSE)
    /\ UNCHANGED <<clock, md_name, alarmVars, engineVars, uiVars>>

\* Context.invalidate_all
InvalidateAll ==
    /\ cache' = [s \in Sources |-> EmptyMap]
    /\ timestamps' = [s \in Sources |-> EmptyMap]
    /\ invalidated' = AllPairs
    /\ call' = CallRec("invalidate_all", "-", None, 0, None, {}, FALSE)
    /\ UNCHANGED <<clock, md_name, alarmVars, engineVars, uiVars>>

\* time.time() moves on
Tick ==
    /\ clock < MaxTime
    /\ clock' = clock + 1
    /\ UNCHANGED <<cacheVars, alarmVars, engineVars, uiVars>>

\* ------------------------------------------------------------- AlarmState
\* The record of a call on the alarm state: its argument, the time of the
\* previous True for that id (fired, before the call) and the value returned.
\* n flips on every call.
NoAlarmCall == [op |-> "none", id |-> "-", prev |-> NoStamp, ret |-> FALSE,
                n |-> 0]

AlarmCallRec(o, i, r) ==
    [op |-> o, id |-> i, prev |-> fired[i], ret |-> r, n |-> 1 - acall.n]

\* self.last_alert.get(alarm_id, 0)
LastAlert(id) == IF id \in DOMAIN last_alert THEN last_alert[id] ELSE 0

\* the cooldown test: no cooldown at all
DueAlways(id, now) == TRUE

\* the cooldown test of should_alert
Due(id, now) == now - LastAlert(id) >= cooldown

\* last_alert after should_alert: stamped on every call
StampedAlways(id, now) == Put(last_alert, id, now)

\* last_alert after should_alert
Stamped(id, now) == IF Due(id, now) THEN Put(last_alert, id, now) ELSE last_alert

\* last_alert after clear: every stamp dropped
ClearedAll(id) == EmptyMap

\* last_alert after clear
Cleared(id) == Pop(last_alert, id)

ShouldAlert(id) ==
    LET now == clock IN
    /\ last_alert' = Stamped(id, now)
    /\ acall' = AlarmCallRec("should_alert", id, Due(id, now))
    /\ fired' = IF Due(id, now) THEN [fired EXCEPT ![id] = now] ELSE fired
    /\ UNCHANGED <<clock, cooldown, cacheVars, engineVars, uiVars>>

Clear(id) ==
    /\ last_alert' = Cleared(id)
    /\ acall' = AlarmCallRec("clear", id, FALSE)
    /\ fired' = [fired EXCEPT ![id] = NoStamp]
    /\ UNCHANGED <<clock, cooldown, cacheVars, engineVars, uiVars>>

\* time.time() moves on between two calls on the alarm state
AlarmTick ==
    /\ clock < MaxAlarmTime
    /\ clock' = clock + 1
    /\ UNCHANGED <<cacheVars, alarmVars, engineVars, uiVars>>

\* ------------------------------------------------------------ text helpers
\* A text that is searched or lower-cased is a sequence of characters.
UpperLetters == <<"A", "B", "C", "D", "E", "F", "G", "H", "I", "J", "K", "L",
                  "M", "N", "O", "P", "Q", "R", "S", "T", "U", "V", "W", "X",
                  "Y", "Z">>
LowerLetters == <<"a", "b", "c", "d", "e", "f", "g", "h", "i", "j", "k", "l",
                  "m", "n", "o", "p", "q", "r", "s", "t", "u", "v", "w", "x",
                  "y", "z">>

LowerChar(c) ==
    IF \E i \in 1..Len(UpperLetters) : UpperLetters[i] = c
    THEN LowerLetters[CHOOSE i \in 1..Len(UpperLetters) : UpperLetters[i] = c]
    ELSE c

\* str.lower()
LowerText(t) == [i \in 1..Len(t) |-> LowerChar(t[i])]

\* needle in hay
Contains(needle, hay) ==
    \E i \in 1..(Len(hay) - Len(needle) + 1) :
        SubSeq(hay, i, i + Len(needle) - 1) = needle

DegradedText == <<"d", "e", "g", "r", "a", "d", "e", "d">>
EmptyText == <<>>

\* "degraded" in array_state.lower(), with the case of the text kept
IsDegradedCaseSensitive(array_state) == Contains(DegradedText, array_state)

\* "degraded" in array_state.lower()
IsDegraded(array_state) == Contains(DegradedText, LowerText(array_state))

\* d.get(k, default)
DictGet(d, k, default) == IF k \in DOMAIN d THEN d[k] ELSE default

\* --------------------------------------------------- what the sources return
\* array_state texts: "clean", "active", "clean, degraded", "Degraded"
ArrayStates ==
    { <<"c", "l", "e", "a", "n">>,
      <<"a", "c", "t", "i", "v", "e">>,
      <<"c", "l", "e", "a", "n", ",", " ", "d", "e", "g", "r", "a", "d", "e", "d">>,
      <<"D", "e", "g", "r", "a", "d", "e", "d">> }

\* the dict of MdadmSource._get_status: each of the two files may be missing
StatusDict(hasState, array_state, hasSync, sync_action) ==
    [k \in (IF hasState THEN {"array_state"} ELSE {})
             \cup (IF hasSync THEN {"sync_action"} ELSE {})
       |-> IF k = "array_state" THEN array_state ELSE sync_action]

StatusDictsOver(syncs) ==
    { StatusDict(p[1], p[2], p[3], p[4]) :
        p \in BOOLEAN \X ArrayStates \X BOOLEAN \X syncs }

\* the sync_action values the alarm ticks see
AlarmSyncs == {"idle", "resync", "recovery", "recover", "check"}

\* The disks of the SMART dump, in the order of the dump.
DiskOrder == <<"sda", "sdb">>
Disks == {DiskOrder[i] : i \in 1..Len(DiskOrder)}

WarnTemp == 50
CritTemp == 60

TempKey == "temperature_c"
SectorKeys == <<"reallocated_sectors", "pending_sectors",
                "uncorrectable_sectors">>

\* One disk of _parse_smart_data: a temperature (or none) and the three
\* sector counters, each present or not; never an empty dict.
DiskDict(hasTemp, temp, has, cnt) ==
    [k \in (IF hasTemp THEN {TempKey} ELSE {})
             \cup {SectorKeys[i] : i \in {j \in 1..3 : has[j]}}
       |-> IF k = TempKey THEN temp
           ELSE cnt[CHOOSE i \in 1..3 : SectorKeys[i] = k]]

AllSectorKeys == <<TRUE, TRUE, TRUE>>
NoSectorKeys == <<FALSE, FALSE, FALSE>>
NoBadSectors == <<0, 0, 0>>

\* disks at each side of the two thresholds, disks with one bad counter,
\* disks that lack the temperature or the counters, and disks both hot and bad
DiskDicts ==
    { DiskDict(TRUE, t, AllSectorKeys, NoBadSectors) :
        t \in {WarnTemp - 1, WarnTemp, CritTemp - 1, CritTemp} }
      \cup { DiskDict(FALSE, 0, AllSectorKeys, c) :
                c \in {NoBadSectors, <<1, 0, 0>>, <<0, 1, 0>>, <<0, 0, 1>>} }
      \cup { DiskDict(TRUE, t, NoSectorKeys, NoBadSectors) :
                t \in {WarnTemp - 1, CritTemp} }
      \cup { DiskDict(TRUE, CritTemp, AllSectorKeys, <<1, 0, 0>>),
             DiskDict(TRUE, WarnTemp, AllSectorKeys, <<0, 1, 0>>),
             DiskDict(TRUE, WarnTemp - 1, AllSectorKeys, <<0, 0, 1>>) }

\* the second disk, when it is in the dump, is hot
OtherDiskDicts == { DiskDict(TRUE, CritTemp, NoSectorKeys, NoBadSectors) }

\* what ctx.glances.get("smart") returns: None, or a dict disk -> DiskDict
SmartResult(isNone, d) == [none |-> isNone, v |-> d]

NoSmart == SmartResult(TRUE, EmptyMap)

\* the dumps of one or two disks
SmartDicts ==
    { [d \in {DiskOrder[1]} |-> x] : x \in DiskDicts }
      \cup { [d \in Disks |-> IF d = DiskOrder[1] THEN p[1] ELSE p[2]] :
                p \in DiskDicts \X OtherDiskDicts }

SmartResults == {NoSmart} \cup { SmartResult(FALSE, d) : d \in SmartDicts }

\* smart = ctx.glances.get("smart", ttl_s=10.0) or {}
OrEmpty(r) == IF r.none THEN EmptyMap ELSE r.v

\* bit n of val is set
BitSet(val, n) == (val \div (2 ^ n)) % 2 = 1

\* the dict of _get_power_throttled for the value vcgencmd printed, with the
\* current under-voltage flag read from the "has occurred" bit
PowerThrottledFromHistory(val) ==
    [under_voltage |-> BitSet(val, 16), freq_capped |-> BitSet(val, 1),
     throttled |-> BitSet(val, 2), soft_temp_limit |-> BitSet(val, 3),
     under_voltage_occurred |-> BitSet(val, 16),
     freq_capped_occurred |-> BitSet(val, 17),
     throttled_occurred |-> BitSet(val, 18),
     soft_temp_limit_occurred |-> BitSet(val, 19),
     raw |-> val]

\* the dict of _get_power_throttled for the value vcgencmd printed; a
\* failed vcgencmd gives the dict of the value 0
PowerThrottled(val) ==
    [under_voltage |-> BitSet(val, 0), freq_capped |-> BitSet(val, 1),
     throttled |-> BitSet(val, 2), soft_temp_limit |-> BitSet(val, 3),
     under_voltage_occurred |-> BitSet(val, 16),
     freq_capped_occurred |-> BitSet(val, 17),
     throttled_occurred |-> BitSet(val, 18),
     soft_temp_limit_occurred |-> BitSet(val, 19),
     raw |-> val]

\* values of get_throttled: each current flag alone, each "has occurred"
\* flag alone, and mixes (0x50005 is the example of the source)
ThrottleVals ==
    {0, 1, 2, 4, 8, 5, 10, 2 ^ 16, 2 ^ 17, 2 ^ 18, 2 ^ 19,
     2 ^ 16 + 2 ^ 18, 2 ^ 16 + 2 ^ 18 + 5, 2 ^ 17 + 2 ^ 19 + 10}

\* ------------------------------------------------------------ alarms.check
\* The calls check makes on _alarm_state, in the order it makes them: either
\* "if should_alert(id): buzzer.pattern(pattern)" or "clear(id)".
AlertOp(i, pat) == [op |-> "alert", id |-> i, pattern |-> pat]
ClearOp(i) == [op |-> "clear", id |-> i, pattern |-> "-"]

TempId(disk) == "temp_" \o disk
SmartId(disk) == "smart_" \o disk

ResyncActions == {"resync", "recovery", "recover"}

\* the RAID section of check
RaidOps(st) ==
    LET array_state == DictGet(st, "array_state", EmptyText)
        sync_action == DictGet(st, "sync_action", "")
    IN IF IsDegraded(array_state)
       THEN <<AlertOp("raid_degraded", "double")>>
       ELSE IF sync_action \in ResyncActions
       THEN <<AlertOp("raid_resync", "short")>>
       ELSE <<ClearOp("raid_degraded"), ClearOp("raid_resync")>>

\* the temperature section for one disk, with exclusive thresholds
DiskTempOpsExclusive(disk, data) ==
    IF TempKey \notin DOMAIN data THEN <<>>
    ELSE LET temp == data[TempKey]
         IN IF temp > CritTemp THEN <<AlertOp(TempId(disk), "triple")>>
            ELSE IF temp > WarnTemp THEN <<AlertOp(TempId(disk), "short")>>
            ELSE <<ClearOp(TempId(disk))>>

\* the temperature section for one disk, a critical temperature starting an
\* alarm of its own
DiskTempOpsEscalate(disk, data) ==
    IF TempKey \notin DOMAIN data THEN <<>>
    ELSE LET temp == data[TempKey]
         IN IF temp >= CritTemp
            THEN <<ClearOp(TempId(disk)), AlertOp(TempId(disk), "triple")>>
            ELSE IF temp >= WarnTemp THEN <<AlertOp(TempId(disk), "short")>>
            ELSE <<ClearOp(TempId(disk))>>

\* the temperature section for one disk
DiskTempOps(disk, data) ==
    IF TempKey \notin DOMAIN data THEN <<>>
    ELSE LET temp == data[TempKey]
         IN IF temp >= CritTemp THEN <<AlertOp(TempId(disk), "triple")>>
            ELSE IF temp >= WarnTemp THEN <<AlertOp(TempId(disk), "short")>>
            ELSE <<ClearOp(TempId(disk))>>

\* the bad-sector section for one disk, looking at reallocated sectors only
DiskSmartOpsReallocatedOnly(disk, data) ==
    IF DictGet(data, "reallocated_sectors", 0) > 0
    THEN <<AlertOp(SmartId(disk), "long")>>
    ELSE <<ClearOp(SmartId(disk))>>

\* the bad-sector section for one disk
DiskSmartOps(disk, data) ==
    LET reallocated == DictGet(data, "reallocated_sectors", 0)
        pending == DictGet(data, "pending_sectors", 0)
        uncorrectable == DictGet(data, "uncorrectable_sectors", 0)
    IN IF reallocated > 0 \/ pending > 0 \/ uncorrectable > 0
       THEN <<AlertOp(SmartId(disk), "long")>>
       ELSE <<ClearOp(SmartId(disk))>>

\* for disk, data in smart.items(): the two loops of check, from disk i on
RECURSIVE TempLoop(_, _)
TempLoop(smart, i) ==
    IF i > Len(DiskOrder) THEN <<>>
    ELSE (IF DiskOrder[i] \in DOMAIN smart
          THEN DiskTempOps(DiskOrder[i], smart[DiskOrder[i]])
          ELSE <<>>) \o TempLoop(smart, i + 1)

RECURSIVE SmartLoop(_, _)
SmartLoop(smart, i) ==
    IF i > Len(DiskOrder) THEN <<>>
    ELSE (IF DiskOrder[i] \in DOMAIN smart
          THEN DiskSmartOps(DiskOrder[i], smart[DiskOrder[i]])
          ELSE <<>>) \o SmartLoop(smart, i + 1)

\* the power section of check
PowerOps(throttle) ==
    IF throttle.under_voltage \/ throttle.throttled
    THEN <<AlertOp("power_throttle", "double")>>
    ELSE <<ClearOp("power_throttle")>>

CheckOps(st, sm, th) ==
    RaidOps(st) \o TempLoop(OrEmpty(sm), 1) \o SmartLoop(OrEmpty(sm), 1)
      \o PowerOps(th)

\* should_alert on the dict la
DueIn(la, id, now) == now - (IF id \in DOMAIN la THEN la[id] ELSE 0) >= cooldown

\* The calls ops made one after the other on the alarm state la: the state
\* they leave and the patterns handed to the buzzer.
RECURSIVE RunOps(_, _, _, _)
RunOps(la, out, ops, now) ==
    IF ops = <<>> THEN [last_alert |-> la, beeps |-> out]
    ELSE LET o == Head(ops)
         IN IF o.op = "clear"
            THEN RunOps(Pop(la, o.id), out, Tail(ops), now)
            ELSE IF DueIn(la, o.id, now)
            THEN RunOps(Put(la, o.id, now),
                        Append(out, [id |-> o.id, pattern |-> o.pattern]),
                        Tail(ops), now)
            ELSE RunOps(la, out, Tail(ops), now)

NoObs == [status |-> EmptyMap, smart |-> NoSmart, throttle |-> PowerThrottled(0),
          raised |-> FALSE, n |-> 0]

NoEpisode == [active |-> FALSE, stale |-> FALSE, degraded |-> FALSE, shorts |-> 0]

\* The resync episode after a tick that saw the status st and emitted out:
\* whether one is running, whether it began while raid_resync was still
\* stamped, whether one of its ticks saw a degraded array, and how many times
\* raid_resync has sounded in it.
EpisodeAfter(st, out) ==
    IF DictGet(st, "sync_action", "") \in ResyncActions
    THEN LET before == IF episode.active THEN episode
                       ELSE [NoEpisode EXCEPT
                               !.stale = "raid_resync" \in DOMAIN last_alert]
         IN [active |-> TRUE,
             stale |-> before.stale,
             degraded |-> before.degraded
                            \/ IsDegraded(DictGet(st, "array_state", EmptyText)),
             shorts |-> before.shorts
                          + Cardinality({i \in 1..Len(out) :
                                           out[i].id = "raid_resync"})]
    ELSE NoEpisode

\* The pattern that went with each stamp of la: the one among out for an
\* alarm that sounded in this check, else the one remembered.
SoundedAfter(la, out) ==
    [id \in DOMAIN la |->
        IF \E i \in 1..Len(out) : out[i].id = id
        THEN out[CHOOSE i \in 1..Len(out) : out[i].id = id].pattern
        ELSE sounded[id]]

\* One call of alarms.check in which the three gets return st, sm and the
\* throttle dict of val.
Check(st, sm, val) ==
    \E th \in {PowerThrottled(val)} :
    \E r \in {RunOps(last_alert, <<>>, CheckOps(st, sm, th), clock)} :
       /\ last_alert' = r.last_alert
       /\ beeps' = r.beeps
       /\ obs' = [status |-> st, smart |-> sm, throttle |-> th,
                  raised |-> FALSE, n |-> 1 - obs.n]
       /\ episode' = EpisodeAfter(st, r.beeps)
       /\ sounded' = SoundedAfter(r.last_alert, r.beeps)
       /\ UNCHANGED <<clock, cooldown, acall, fired, cacheVars, uiVars>>

\* One call of alarms.check in which ctx.mdadm.get("status") raises: nothing
\* of check runs.
CheckRaises ==
    /\ obs' = [NoObs EXCEPT !.raised = TRUE, !.n = 1 - obs.n]
    /\ beeps' = <<>>
    /\ UNCHANGED <<clock, alarmVars, episode, sounded, cacheVars, uiVars>>

\* time.time() moves on between two ticks of the main loop
EngineTick ==
    /\ clock < MaxAlarmTime
    /\ clock' = clock + 1
    /\ UNCHANGED <<cacheVars, alarmVars, engineVars, uiVars>>

\* ------------------------------------------------- navigation, main loop
NumPages == 5
NumFrames == 4
HomePage == -1

\* the locals of the loop before it has assigned them; done lists the steps
\* the tick has taken
LoopAt(pc) == [pc |-> pc, now_mono |-> 0, page |-> HomePage, nav_at |-> 0,
               done |-> <<>>]

ButtonIdle == [pc |-> "idle", was_home |-> FALSE, torn |-> FALSE]

NoText == <<>>

NothingShown == [target |-> HomePage, error |-> FALSE, text |-> NoText,
                 overlay |-> <<>>, n |-> 0]

\* main before its first statement: the module globals as assigned at import
LifeStart == [phase |-> "start", display |-> FALSE, buzzer |-> FALSE,
              button |-> FALSE, found |-> FALSE, screen |-> "off",
              tried |-> {}, failed |-> {}, signalled |-> FALSE]

\* main runs its loop: display, button and buzzer are set up
LifeRunning == [LifeStart EXCEPT !.phase = "running", !.display = TRUE,
                                 !.buzzer = TRUE, !.button = TRUE,
                                 !.found = TRUE, !.screen = "loading"]

\* the state in which main enters its loop
NavInit ==
    /\ current_page = HomePage
    /\ last_nav_at = 0
    /\ mono = 0
    /\ frame = 0
    /\ loop = LoopAt("now")
    /\ btn = ButtonIdle
    /\ shown = NothingShown
    /\ presses = 0
    /\ seen = TRUE
    /\ life = LifeRunning

\* (now - nav_at) >= NAV_TIMEOUT, taken strictly
TimedOutStrict(now, nav_at) == now - nav_at > NavTimeout

\* (now - nav_at) >= NAV_TIMEOUT
TimedOut(now, nav_at) == now - nav_at >= NavTimeout

\* on_button's new current_page, never leaving the last page
NextPageNoWrap(was_home, page) ==
    IF was_home THEN 0
    ELSE IF page + 1 < NumPages THEN page + 1 ELSE page

\* on_button's new current_page, the last page followed by home mode
NextPageThenHome(was_home, page) ==
    IF was_home THEN 0
    ELSE IF page + 1 < NumPages THEN page + 1 ELSE HomePage

\* on_button's new current_page: 0 if the test saw home mode, else the page
\* after the one current_page holds when the assignment reads it
NextPage(was_home, page) ==
    IF was_home THEN 0 ELSE (page + 1) % NumPages

\* the statements of the loop body with the frame advanced before the alarms
StepAfterFrameFirst(pc) ==
    CASE pc = "now" -> "frame"
      [] pc = "frame" -> "alarms"
      [] pc = "alarms" -> "test_page"
      [] pc = "reset" -> "snap_page"
      [] pc = "snap_page" -> "snap_nav"
      [] pc = "snap_nav" -> "render"
      [] pc = "render" -> "sleep"

\* the statement of the loop body that follows the one at pc, in the order
\* the body is written; "reset" stands for the whole if statement
StepAfter(pc) ==
    CASE pc = "now" -> "alarms"
      [] pc = "alarms" -> "test_page"
      [] pc = "reset" -> "frame"
      [] pc = "frame" -> "snap_page"
      [] pc = "snap_page" -> "snap_nav"
      [] pc = "snap_nav" -> "render"
      [] pc = "render" -> "sleep"

\* on_button, first statements: now = time.monotonic(); last_nav_at = now
Press ==
    /\ btn.pc = "idle"
    /\ life.button
    /\ loop.pc # "dead"
    /\ presses < MaxPresses
    /\ last_nav_at' = mono
    /\ btn' = [btn EXCEPT !.pc = "test", !.torn = (mono # last_nav_at)]
    /\ UNCHANGED <<current_page, mono, frame, loop, shown, presses>>
    /\ UNCHANGED <<clock, cacheVars, alarmVars, engineVars, home, life>>
    /\ seen' = (seen /\ (loop.pc = "snap_nav" => mono = last_nav_at))

\* on_button: if current_page == -1
ButtonTest ==
    /\ btn.pc = "test"
    /\ btn' = [pc |-> "set", was_home |-> (current_page = HomePage),
               torn |-> btn.torn]
    /\ UNCHANGED <<current_page, last_nav_at, mono, frame, loop, shown, presses>>
    /\ UNCHANGED <<clock, cacheVars, alarmVars, engineVars, home, seen, life>>

\* on_button: the assignment to current_page of the branch taken
ButtonSet ==
    /\ btn.pc = "set"
    /\ current_page' = NextPage(btn.was_home, current_page)
    /\ presses' = IF current_page = HomePage THEN 1 ELSE presses + 1
    /\ btn' = ButtonIdle
    /\ UNCHANGED <<last_nav_at, mono, frame, loop, shown>>
    /\ UNCHANGED <<clock, cacheVars, alarmVars, engineVars, home, life>>
    /\ seen' = (seen \/ (/\ loop.pc = "snap_nav"
                          /\ NextPage(btn.was_home, current_page) = loop.page))

\* time.monotonic() moves on
MonoTick ==
    /\ mono < MaxMono
    /\ mono' = mono + 1
    /\ UNCHANGED <<current_page, last_nav_at, frame, loop, btn, shown, presses>>
    /\ UNCHANGED <<clock, cacheVars, alarmVars, engineVars, home, seen, life>>

\* a step of the loop that only moves on to pc; step is its entry in done
LoopGoes(pc, step) ==
    /\ loop' = [loop EXCEPT !.pc = pc, !.done = loop.done \o step]
    /\ UNCHANGED <<current_page, last_nav_at, mono, frame, btn, shown, presses>>
    /\ UNCHANGED <<clock, cacheVars, alarmVars, engineVars, home, seen>>

\* now_mono = time.monotonic()
LoopNow ==
    /\ loop.pc = "now"
    /\ loop' = [loop EXCEPT !.pc = StepAfter("now"), !.now_mono = mono]
    /\ UNCHANGED <<current_page, last_nav_at, mono, frame, btn, shown, presses>>
    /\ UNCHANGED <<clock, cacheVars, alarmVars, engineVars, home, seen, life>>

\* alarms.check(ctx, buzzer) returns
LoopAlarms ==
    /\ loop.pc = "alarms"
    /\ LoopGoes(StepAfter("alarms"), <<"alarms">>)
    /\ UNCHANGED life

\* where an exception of alarms.check takes the loop if the loop caught it
AlarmFailureCaught == "sleep"

\* where an exception of alarms.check takes the loop: out of main
AlarmFailureGoes == "dead"

\* alarms.check(ctx, buzzer) raises: the exception leaves main for the
\* finally block of the script
LoopAlarmsRaises ==
    /\ loop.pc = "alarms"
    /\ LoopGoes(AlarmFailureGoes, <<"alarms">>)
    /\ life' = IF AlarmFailureGoes = "dead"
               THEN [life EXCEPT !.phase = "finally"] ELSE life

\* if current_page != -1 and ...
LoopTestPage ==
    /\ loop.pc = "test_page"
    /\ LoopGoes(IF current_page # HomePage THEN "test_nav" ELSE StepAfter("reset"),
                <<"timeout">>)
    /\ UNCHANGED life

\* ... and (now_mono - last_nav_at) >= NAV_TIMEOUT
LoopTestNav ==
    /\ loop.pc = "test_nav"
    /\ LoopGoes(IF TimedOut(loop.now_mono, last_nav_at)
                THEN "reset" ELSE StepAfter("reset"), <<>>)
    /\ UNCHANGED life

\* current_page = -1
LoopReset ==
    /\ loop.pc = "reset"
    /\ current_page' = HomePage
    /\ presses' = 0
    /\ loop' = [loop EXCEPT !.pc = StepAfter("reset")]
    /\ UNCHANGED <<last_nav_at, mono, frame, btn, shown>>
    /\ UNCHANGED <<clock, cacheVars, alarmVars, engineVars, home, seen, life>>

\* Display.advance_frame()
LoopFrame ==
    /\ loop.pc = "frame"
    /\ frame' = (frame + 1) % NumFrames
    /\ loop' = [loop EXCEPT !.pc = StepAfter("frame"),
                            !.done = loop.done \o <<"frame">>]
    /\ UNCHANGED <<current_page, last_nav_at, mono, btn, shown, presses>>
    /\ UNCHANGED <<clock, cacheVars, alarmVars, engineVars, home, seen, life>>

\* page = current_page
LoopSnapPage ==
    /\ loop.pc = "snap_page"
    /\ loop' = [loop EXCEPT !.pc = StepAfter("snap_page"), !.page = current_page,
                            !.done = loop.done \o <<"snapshot">>]
    /\ UNCHANGED <<current_page, last_nav_at, mono, frame, btn, shown, presses>>
    /\ UNCHANGED <<clock, cacheVars, alarmVars, engineVars, home, life>>
    /\ seen' = ~btn.torn

\* nav_at = last_nav_at; ctx.last_nav_at = nav_at
LoopSnapNav ==
    /\ loop.pc = "snap_nav"
    /\ loop' = [loop EXCEPT !.pc = StepAfter("snap_nav"), !.nav_at = last_nav_at]
    /\ UNCHANGED <<current_page, last_nav_at, mono, frame, btn, shown, presses>>
    /\ UNCHANGED <<clock, cacheVars, alarmVars, engineVars, home, life>>
    /\ seen' = (seen \/ (btn.pc = "idle" /\ current_page = loop.page))

\* the test of the try block without its page == -1 half: BROWSE_PAGES[-1]
\* is the last page of the list
RenderTargetTimeoutOnly(page, now, nav_at) ==
    IF TimedOut(now, nav_at) THEN HomePage ELSE (page + NumPages) % NumPages

\* the page the try block hands to display.render: -1 for pages.home
RenderTarget(page, now, nav_at) ==
    IF page = HomePage \/ TimedOut(now, nav_at) THEN HomePage ELSE page

\* str(e) of the exceptions a page function raises: an empty message, a
\* short one ("timed out") and one of more than ErrorWidth characters
\* ("no such file: /proc/mdstat")
ErrorTexts ==
    { NoText,
      <<"t","i","m","e","d"," ","o","u","t">>,
      <<"n","o"," ","s","u","c","h"," ","f","i","l","e",":"," ",
        "/","p","r","o","c","/","m","d","s","t","a","t">> }

ErrorWidth == 20

\* the second line of show_error, the text written whole
ErrorLineWhole(text) == text

\* the second line of show_error: str(error_text)[:20]
ErrorLine(text) ==
    SubSeq(text, 1, IF Len(text) < ErrorWidth THEN Len(text) ELSE ErrorWidth)

\* the two lines show_error draws
ErrorOverlay(text) == <<"OLED ERR", ErrorLine(text)>>

\* what the display holds after the try block: the page drawn by
\* display.render, or the overlay of show_error for the exception caught
ShownAfter(target, raised, text) ==
    [target |-> target, error |-> raised,
     text |-> IF raised THEN text ELSE NoText,
     overlay |-> IF raised THEN ErrorOverlay(text) ELSE <<>>,
     n |-> 1 - shown.n]

\* the try block: display.render of the page chosen, which returns or raises
\* an exception with one of the texts into display.show_error
LoopRenderWith(texts) ==
    /\ loop.pc = "render"
    /\ \E raised \in BOOLEAN : \E text \in (IF raised THEN texts ELSE {NoText}) :
          /\ shown' = ShownAfter(RenderTarget(loop.page, loop.now_mono, loop.nav_at),
                                 raised, text)
          /\ life' = [life EXCEPT !.screen = IF raised THEN "error" ELSE "page"]
    /\ loop' = [loop EXCEPT !.pc = StepAfter("render"),
                            !.done = loop.done \o <<"render">>]
    /\ UNCHANGED <<current_page, last_nav_at, mono, frame, btn, presses>>
    /\ UNCHANGED <<clock, cacheVars, alarmVars, engineVars, home>>
    /\ seen' = TRUE

\* the try block when the page function fails with a message too long for
\* the display
LoopRender == LoopRenderWith({t \in ErrorTexts : Len(t) > ErrorWidth})

\* the try block when the page function fails with any of the messages
LoopRenderAnyText == LoopRenderWith(ErrorTexts)

\* time.sleep(DISPLAY_INTERVAL) and back to the top; the locals are dead
\* until the next tick assigns them
LoopSleep ==
    /\ loop.pc = "sleep"
    /\ loop' = LoopAt("now")
    /\ UNCHANGED <<current_page, last_nav_at, mono, frame, btn, shown, presses>>
    /\ UNCHANGED <<clock, cacheVars, alarmVars, engineVars, home, seen, life>>

\* one step of a tick that goes on to the next
LoopStep ==
    \/ LoopNow
    \/ LoopAlarms
    \/ LoopTestPage
    \/ LoopTestNav
    \/ LoopReset
    \/ LoopFrame
    \/ LoopSnapPage
    \/ LoopSnapNav
    \/ LoopRender
    \/ LoopSleep

\* ------------------------------------------- start and shutdown of the script
\* the cleanup steps in the order handle_shutdown and the finally block
\* take them
CleanupOrder == <<"display", "buzzer", "button">>

Devices == {CleanupOrder[i] : i \in 1..Len(CleanupOrder)}

CleanupIndex(dev) == CHOOSE i \in 1..Len(CleanupOrder) : CleanupOrder[i] = dev

\* the globals among display, buzzer and button that are set
Held(l) == {dev \in Devices : l[dev]}

\* the steps handle_shutdown attempts when the step of fail raises
\* ("none": no step raises): the devices held, up to the failing one
HandlerTried(l, fail) ==
    IF fail = "none" THEN Held(l)
    ELSE {dev \in Held(l) : CleanupIndex(dev) <= CleanupIndex(fail)}

\* the display after display.clear() was attempted, raising or not
ScreenAfterClear(l, raises) ==
    IF l.display /\ ~raises THEN "blank" ELSE l.screen

\* what follows ctx.mdadm.get("name") if main went on without the name
AfterNameCheckIgnored(found) == "button"

\* what follows ctx.mdadm.get("name"): the fatal path if the name is empty
AfterNameCheck(found) == IF found THEN "button" ELSE "fatal"

\* the steps of the lifecycle leave the navigation state alone
LifeOnly ==
    /\ UNCHANGED <<current_page, mono, frame, btn, shown, presses, seen>>
    /\ UNCHANGED <<clock, cacheVars, alarmVars, engineVars, home>>

\* main up to the name check: the display is initialized and shows the
\* loading screen, the signal handlers are installed, ctx.mdadm.get("name")
\* returns a name or nothing; without a name draw_fatal_error is shown
StartMain ==
    /\ life.phase = "start"
    /\ \E found \in BOOLEAN :
          life' = [life EXCEPT !.display = TRUE, !.found = found,
                               !.phase = AfterNameCheck(found),
                               !.screen = IF AfterNameCheck(found) = "fatal"
                                          THEN "fatal" ELSE "loading"]
    /\ UNCHANGED <<loop, last_nav_at>>
    /\ LifeOnly

\* the fatal path after its sleep: display.clear(), which returns or raises,
\* and main is left
FatalReturn ==
    /\ life.phase = "fatal"
    /\ \E raises \in BOOLEAN :
          life' = [life EXCEPT !.phase = "finally",
                               !.screen = ScreenAfterClear(life, raises)]
    /\ UNCHANGED <<loop, last_nav_at>>
    /\ LifeOnly

\* button = Button.init(on_button)
InitButton ==
    /\ life.phase = "button"
    /\ life' = [life EXCEPT !.button = TRUE, !.phase = "buzzer"]
    /\ UNCHANGED <<loop, last_nav_at>>
    /\ LifeOnly

\* buzzer = Buzzer.init(); last_nav_at = time.monotonic(); the loop is entered
InitBuzzer ==
    /\ life.phase = "buzzer"
    /\ life' = [life EXCEPT !.buzzer = TRUE, !.phase = "running"]
    /\ last_nav_at' = mono
    /\ loop' = LoopAt("now")
    /\ LifeOnly

\* handle_shutdown, run by SIGTERM or SIGINT between two statements of main:
\* the cleanup calls of the devices held, in order, until one raises; if
\* none raises sys.exit(0). SystemExit and an exception raised outside the
\* try block leave main; an exception raised while main is inside the try
\* block is caught by its except clause and shown by show_error, and the
\* loop goes on.
HandleShutdown ==
    /\ ~life.signalled
    /\ life.phase \in {"fatal", "button", "buzzer", "running"}
    /\ \E fail \in {"none"} \cup Held(life) : \E caught \in BOOLEAN :
        \E text \in ErrorTexts :
          /\ caught => (fail # "none" /\ life.phase = "running" /\ loop.pc = "render")
          /\ ~caught => text = NoText
          /\ IF caught
             THEN /\ life' = [life EXCEPT
                                !.signalled = TRUE,
                                !.tried = @ \cup HandlerTried(life, fail),
                                !.failed = @ \cup {fail},
                                !.screen = "error"]
                  /\ shown' = ShownAfter(RenderTarget(loop.page, loop.now_mono,
                                                      loop.nav_at), TRUE, text)
                  /\ loop' = [loop EXCEPT !.pc = StepAfter("render"),
                                          !.done = loop.done \o <<"render">>]
             ELSE /\ life' = [life EXCEPT
                                !.signalled = TRUE,
                                !.phase = "finally",
                                !.tried = @ \cup HandlerTried(life, fail),
                                !.failed = @ \cup ({fail} \ {"none"}),
                                !.screen = ScreenAfterClear(life, fail = "display")]
                  /\ shown' = shown
                  /\ loop' = [loop EXCEPT !.pc = "dead"]
    /\ UNCHANGED <<current_page, last_nav_at, mono, frame, btn, presses, seen>>
    /\ UNCHANGED <<clock, cacheVars, alarmVars, engineVars, home>>

\* one guarded step of the finally block: the cleanup call of dev if dev is
\* set, which returns or raises into except Exception: pass
CleanupStep(phase, dev, next) ==
    /\ life.phase = phase
    /\ \E raises \in {r \in BOOLEAN : r => life[dev]} :
          life' = [life EXCEPT
                     !.phase = next,
                     !.tried = @ \cup (IF life[dev] THEN {dev} ELSE {}),
                     !.failed = @ \cup (IF raises THEN {dev} ELSE {}),
                     !.screen = IF dev = "display"
                                THEN ScreenAfterClear(life, raises) ELSE @]
    /\ UNCHANGED <<loop, last_nav_at>>
    /\ LifeOnly

CleanupDisplay == CleanupStep("finally", "display", "fin_buzzer")

CleanupBuzzer == CleanupStep("fin_buzzer", "buzzer", "fin_button")

CleanupButton == CleanupStep("fin_button", "button", "exited")

\* ------------------------------------------------------- pages.home.render
\* the sync_action values the home page sees
HomeSyncs == {"", "idle", "frozen", "resync", "recovery", "recover", "check",
              "repair", "reshape"}

ResyncViewActions == {"resync", "recovery", "recover", "check", "repair"}

\* the _render_* calls of one render, in order, with the degraded test first
HomeDrawsDegradedFirst(st) ==
    LET sync_action == DictGet(st, "sync_action", "")
        array_state == DictGet(st, "array_state", EmptyText)
    IN IF IsDegraded(array_state)
       THEN <<"degraded">>
       ELSE IF /\ sync_action # "" /\ sync_action \notin {"idle", "frozen"}
               /\ sync_action \in ResyncViewActions
       THEN <<"resync">>
       ELSE <<"clean">>

\* the _render_* calls of one render, in order
HomeDraws(st) ==
    LET sync_action == DictGet(st, "sync_action", "")
        array_state == DictGet(st, "array_state", EmptyText)
    IN IF /\ sync_action # "" /\ sync_action \notin {"idle", "frozen"}
          /\ sync_action \in ResyncViewActions
       THEN <<"resync">>
       ELSE IF IsDegraded(array_state)
       THEN <<"degraded">>
       ELSE <<"clean">>

NoHome == [status |-> EmptyMap, drawn |-> <<>>, raised |-> FALSE, n |-> 0]

\* One pages.home.render in which ctx.mdadm.get("status") returns st.
RenderHome(st) ==
    /\ home' = [status |-> st, drawn |-> HomeDraws(st), raised |-> FALSE,
                n |-> 1 - home.n]
    /\ UNCHANGED <<clock, cacheVars, alarmVars, engineVars, navVars, life>>

\* One pages.home.render in which ctx.mdadm.get("status") raises: nothing is
\* drawn by the page.
RenderHomeRaises ==
    /\ home' = [NoHome EXCEPT !.raised = TRUE, !.n = 1 - home.n]
    /\ UNCHANGED <<clock, cacheVars, alarmVars, engineVars, navVars, life>>

\* ---------------------------------------------------------- specifications
CacheInit ==
    /\ cache = [s \in Sources |-> EmptyMap]
    /\ timestamps = [s \in Sources |-> EmptyMap]
    /\ md_name = None
    /\ call = NoCall
    /\ invalidated = {}

AlarmInit ==
    /\ last_alert = EmptyMap
    /\ acall = NoAlarmCall
    /\ fired = [id \in AlarmIds |-> NoStamp]

\* alarms.check not called yet
EngineInit ==
    /\ sounded = EmptyMap
    /\ obs = NoObs
    /\ beeps = <<>>
    /\ episode = NoEpisode

\* pages.home not rendered yet
HomeInit == home = NoHome

\* The program after construction; the cooldown is the one the AlarmState
\* constructor was given.
InitCache ==
    /\ clock = 0 /\ CacheInit /\ AlarmInit /\ EngineInit /\ HomeInit /\ NavInit
    /\ cooldown = MaxCooldown

InitAlarm ==
    /\ clock = 0 /\ CacheInit /\ AlarmInit /\ EngineInit /\ HomeInit /\ NavInit
    /\ cooldown \in 1..MaxCooldown

\* The alarm engine some time after boot: the clock is past the cooldown.
InitEngine ==
    /\ CacheInit /\ AlarmInit /\ EngineInit /\ HomeInit /\ NavInit
    /\ cooldown = MaxCooldown
    /\ clock = MaxCooldown

\* The data context and its three sources.
CacheNext ==
    \/ Tick
    \/ \E s \in Sources : \E k \in KeysOf(s) : \E t \in TTLs : Get(s, k, t)
    \/ \E s \in Sources : \E k \in KeysOf(s) : Invalidate(s, k)
    \/ \E s \in Sources : InvalidateSource(s)
    \/ InvalidateAll

SpecCache == InitCache /\ [][CacheNext]_vars

\* One AlarmState under arbitrary should_alert / clear calls.
AlarmNext ==
    \/ AlarmTick
    \/ \E id \in AlarmIds : ShouldAlert(id)
    \/ \E id \in AlarmIds : Clear(id)

SpecAlarm == InitAlarm /\ [][AlarmNext]_vars

\* A condition that persists: should_alert is polled on every tick of the
\* main loop and nothing clears the stamp.
PersistNext ==
    \/ AlarmTick
    \/ \E id \in AlarmIds : ShouldAlert(id)

SpecPersist ==
    /\ InitAlarm
    /\ [][PersistNext]_vars
    /\ WF_vars(AlarmTick)
    /\ \A id \in AlarmIds : WF_vars(ShouldAlert(id))

\* The alarm ticks on the RAID status: the disks report nothing and the
\* power is good.
RaidAlarmNext ==
    \/ EngineTick
    \/ \E st \in StatusDictsOver(AlarmSyncs) : Check(st, NoSmart, 0)
    \/ CheckRaises

SpecRaidAlarm == InitEngine /\ [][RaidAlarmNext]_vars

\* The alarm ticks on the SMART data: the array is clean and idle and the
\* power is good.
HealthyStatus == StatusDict(TRUE, <<"c", "l", "e", "a", "n">>, TRUE, "idle")

DiskAlarmNext ==
    \/ EngineTick
    \/ \E sm \in SmartResults : Check(HealthyStatus, sm, 0)
    \/ CheckRaises

SpecDiskAlarm == InitEngine /\ [][DiskAlarmNext]_vars

\* The alarm ticks on the throttle flags: the array is clean and idle and
\* the disks report nothing.
PowerAlarmNext ==
    \/ EngineTick
    \/ \E val \in ThrottleVals : Check(HealthyStatus, NoSmart, val)
    \/ CheckRaises

SpecPowerAlarm == InitEngine /\ [][PowerAlarmNext]_vars

\* main has reached its loop
InitBoot == InitCache

\* The renders of the home page.
HomeNext ==
    \/ \E st \in StatusDictsOver(HomeSyncs) : RenderHome(st)
    \/ RenderHomeRaises

SpecHome == InitBoot /\ [][HomeNext]_vars

\* The main loop and the button thread.
NavNext ==
    \/ LoopStep
    \/ LoopAlarmsRaises
    \/ Press
    \/ ButtonTest
    \/ ButtonSet
    \/ MonoTick

SpecNav == InitBoot /\ [][NavNext]_vars

\* The main loop from a browse page on, the button left alone.
InitIdle ==
    /\ clock = 0 /\ CacheInit /\ AlarmInit /\ EngineInit /\ HomeInit
    /\ cooldown = MaxCooldown
    /\ current_page \in 0..(NumPages - 1)
    /\ presses = current_page + 1
    /\ last_nav_at = 0
    /\ mono = 0
    /\ frame \in 0..(NumFrames - 1)
    /\ loop = LoopAt("now")
    /\ btn = ButtonIdle
    /\ shown = NothingShown
    /\ seen = TRUE
    /\ life = LifeRunning

IdleNext ==
    \/ LoopStep
    \/ MonoTick

SpecIdle ==
    InitIdle /\ [][IdleNext]_vars /\ WF_vars(LoopStep) /\ WF_vars(MonoTick)

\* The script from its first statement to its exit, the button left alone.
InitLife ==
    /\ clock = 0 /\ CacheInit /\ AlarmInit /\ EngineInit /\ HomeInit
    /\ cooldown = MaxCooldown
    /\ current_page = HomePage
    /\ last_nav_at = 0
    /\ mono = 0
    /\ frame = 0
    /\ loop = LoopAt("boot")
    /\ btn = ButtonIdle
    /\ shown = NothingShown
    /\ presses = 0
    /\ seen = TRUE
    /\ life = LifeStart

LifeNext ==
    \/ StartMain
    \/ FatalReturn
    \/ InitButton
    \/ InitBuzzer
    \/ HandleShutdown
    \/ CleanupDisplay
    \/ CleanupBuzzer
    \/ CleanupButton
    \/ MonoTick
    \/ LoopNow
    \/ LoopAlarms
    \/ LoopAlarmsRaises
    \/ LoopTestPage
    \/ LoopFrame
    \/ LoopSnapPage
    \/ LoopSnapNav
    \/ LoopRenderAnyText
    \/ LoopSleep

SpecLife == InitLife /\ [][LifeNext]_vars

\* ------------------------------------------------------------- properties
\* d without the key k
Without(d, k) == [x \in (DOMAIN d) \ {k} |-> d[x]]

\* the step is a call of get
GetStep == call'.n # call.n /\ call'.op = "get"

\* C1: a get(k,t) made less than t seconds after the entry of k was fetched
\* invokes _fetch not at all, returns the stored value and leaves the cache
\* alone; a get(k,t) made when at least t seconds have elapsed (or with no
\* entry) invokes _fetch exactly once and, when the fetch returns, stores and
\* returns the new value stamped with the current time.
C1_CacheFreshness ==
    [][GetStep =>
         LET s == call'.src
             k == call'.key
         IN IF k \in DOMAIN cache[s] /\ clock - timestamps[s][k] < call'.ttl
            THEN /\ call'.fetched = {}
                 /\ ~call'.raised
                 /\ call'.ret = cache[s][k]
                 /\ cache' = cache
                 /\ timestamps' = timestamps
            ELSE /\ call'.fetched = {<<s, k>>}
                 /\ ~call'.raised =>
                      /\ k \in DOMAIN cache'[s]
                      /\ call'.ret = cache'[s][k]
                      /\ timestamps'[s][k] = clock]_vars

\* a second get within the TTL was served from the cache
C1_Witness ==
    /\ call.op = "get" /\ call.had /\ call.fetched = {}
    /\ call.ttl = 1
    /\ timestamps[call.src][call.key] = clock

\* C2: whether a get(k,t) is served from the cache depends on the t of that
\* call alone: it invokes no fetch iff the entry is younger than t, and the
\* value it returns is, at that moment, younger than t.
C2_TTLPerCall ==
    [][GetStep =>
         LET s == call'.src
             k == call'.key
         IN /\ call'.fetched = {} <=>
                 (k \in DOMAIN cache[s] /\ clock - timestamps[s][k] < call'.ttl)
            /\ ~call'.raised =>
                 /\ k \in DOMAIN cache'[s]
                 /\ call'.ret = cache'[s][k]
                 /\ clock' - timestamps'[s][k] < call'.ttl]_vars

\* a hit with the large TTL on an entry the small TTL would re-fetch
C2_Witness ==
    /\ call.op = "get" /\ call.had /\ call.fetched = {}
    /\ call.ttl = MaxTTL
    /\ clock - timestamps[call.src][call.key] >= 1

\* C3: no get raises: a failure inside _fetch never leaves get.
C3_NoFetchExceptionEscapes == call.op = "get" => ~call.raised

\* C4: a no-data value returned by _fetch is stored with the current time,
\* and a get made while that entry is younger than its ttl returns the same
\* no-data value without a fetch.
C4_FailureCached ==
    [][GetStep =>
         LET s == call'.src
             k == call'.key
         IN /\ (/\ call'.fetched # {}
                /\ ~call'.raised
                /\ call'.ret \in NoDataValues)
                 => /\ k \in DOMAIN cache'[s]
                    /\ cache'[s][k] = call'.ret
                    /\ k \in DOMAIN timestamps'[s]
                    /\ timestamps'[s][k] = clock'
            /\ (/\ k \in DOMAIN cache[s]
                /\ cache[s][k] \in NoDataValues
                /\ clock - timestamps[s][k] < call'.ttl)
                 => /\ call'.fetched = {}
                    /\ call'.ret = cache[s][k]]_vars

\* a cached failure was served without a fetch
C4_Witness ==
    /\ call.op = "get" /\ call.had /\ call.fetched = {}
    /\ call.ret \in NoDataValues

\* C5: the first get of a key after it was invalidated - by invalidate(k),
\* by invalidate() on its source or by invalidate_all() - invokes _fetch;
\* every invalidation leaves the keys it names uncached, raises nothing, and
\* changes nothing when the key was not cached.
C5_Invalidate ==
    [][/\ (GetStep /\ <<call'.src, call'.key>> \in invalidated)
            => call'.fetched = {<<call'.src, call'.key>>}
       /\ (call'.n # call.n /\ call'.op = "invalidate" /\ call'.key # None) =>
            /\ ~call'.raised
            /\ call'.key \notin DOMAIN cache'[call'.src]
            /\ call'.key \notin DOMAIN timestamps'[call'.src]
            /\ call'.key \notin DOMAIN cache[call'.src]
                 => (cache' = cache /\ timestamps' = timestamps)
       /\ (call'.n # call.n /\ call'.op = "invalidate" /\ call'.key = None) =>
            /\ ~call'.raised
            /\ DOMAIN cache'[call'.src] = {}
            /\ DOMAIN timestamps'[call'.src] = {}
       /\ (call'.n # call.n /\ call'.op = "invalidate_all") =>
            /\ ~call'.raised
            /\ \A s \in Sources :
                 DOMAIN cache'[s] = {} /\ DOMAIN timestamps'[s] = {}]_vars

\* a cached key was invalidated at the instant its sibling entry is still
\* within every TTL, and no get of it has come yet
C5_Witness ==
    /\ call.op = "invalidate" /\ call.key # None /\ call.had
    /\ <<call.src, call.key>> \in invalidated
    /\ \E k \in KeysOf(call.src) \ {call.key} :
         /\ k \in DOMAIN timestamps[call.src]
         /\ clock - timestamps[call.src][k] < 1

\* C6: a get(a, t) or invalidate(a) on one source leaves the entry (value
\* and timestamp) of every other key of that source and the maps of the
\* other sources as they were, and invokes _fetch for no other key.
C6_KeyIsolation ==
    [][(/\ call'.n # call.n
        /\ call'.op \in {"get", "invalidate"}
        /\ call'.key # None)
       => LET s == call'.src
              k == call'.key
          IN /\ Without(cache'[s], k) = Without(cache[s], k)
             /\ Without(timestamps'[s], k) = Without(timestamps[s], k)
             /\ \A s2 \in Sources \ {s} :
                  cache'[s2] = cache[s2] /\ timestamps'[s2] = timestamps[s2]
             /\ call'.fetched \subseteq {<<s, k>>}]_vars

\* a key was invalidated while its sibling and another source stay cached
C6_Witness ==
    /\ call.op = "invalidate" /\ call.had /\ call.src = "mdadm"
    /\ call.key # None
    /\ DOMAIN cache["mdadm"] # {}
    /\ DOMAIN cache["glances"] # {}

\* the step is a call op(id) on the alarm state
AlarmStep(op, id) ==
    acall'.n # acall.n /\ acall'.op = op /\ acall'.id = id

\* C7: a should_alert(id) that returns True comes at least cooldown seconds
\* after the previous should_alert(id) that returned True, unless clear(id)
\* was called in between.
C7_CooldownInterval ==
    [][\A id \in AlarmIds :
         (AlarmStep("should_alert", id) /\ acall'.ret /\ fired[id] # NoStamp)
           => clock' - fired[id] >= cooldown]_vars

\* an alert fired again, later than one cooldown after the previous one
C7_Witness ==
    /\ acall.op = "should_alert" /\ acall.ret
    /\ acall.prev # NoStamp
    /\ fired[acall.id] - acall.prev > cooldown

\* C8: should_alert(id) returns True whenever id has no stamp in
\* last_alert, whatever the clock and the cooldown are.
C8_UnstampedAlerts ==
    [][\A id \in AlarmIds :
         (AlarmStep("should_alert", id) /\ id \notin DOMAIN last_alert)
           => acall'.ret]_vars

\* C9: under per-tick polling of a persisting condition, should_alert(id)
\* returns True exactly when at least cooldown seconds have passed since the
\* previous True, a call that returns False leaves the stamps alone, and
\* every alert is followed by another one (as far as the clock runs).
C9_ReAlert ==
    /\ [][\A id \in AlarmIds :
            (AlarmStep("should_alert", id) /\ fired[id] # NoStamp)
              => /\ acall'.ret <=> (clock - fired[id] >= cooldown)
                 /\ ~acall'.ret => last_alert' = last_alert]_vars
    /\ \A id \in AlarmIds : \A t \in 0..MaxAlarmTime :
         (fired[id] = t /\ t + cooldown <= MaxAlarmTime)
           ~> (fired[id] >= t + cooldown)

\* the alert fired again on the first tick one cooldown after the previous
C9_Witness ==
    /\ acall.op = "should_alert" /\ acall.ret
    /\ acall.prev # NoStamp
    /\ fired[acall.id] = acall.prev + cooldown
    /\ clock = fired[acall.id]

\* C10: should_alert(a) and clear(a) leave the stamp of every other id as
\* it was.
C10_IdIsolation ==
    [][\A id \in AlarmIds :
         (AlarmStep("should_alert", id) \/ AlarmStep("clear", id))
           => Without(last_alert', id) = Without(last_alert, id)]_vars

\* a stamped id was cleared while the other id keeps its stamp
C10_Witness ==
    /\ acall.op = "clear" /\ acall.prev # NoStamp
    /\ \E b \in AlarmIds \ {acall.id} : b \in DOMAIN last_alert

\* A tick of alarms.check that ran to its end.
CheckStep == obs'.n # obs.n /\ ~obs'.raised

\* the pattern of alarm id is among the beeps
Beeped(out, id, pat) == \E i \in 1..Len(out) : out[i] = [id |-> id, pattern |-> pat]

\* alarm id is among the beeps, whatever the pattern
BeepedAny(out, id) == \E i \in 1..Len(out) : out[i].id = id

ObsArrayState(o) == DictGet(o.status, "array_state", EmptyText)
ObsSyncAction(o) == DictGet(o.status, "sync_action", "")

\* C11: while a resync episode runs (every tick since its start saw
\* sync_action in resync/recovery/recover), if it began with no stamp of
\* raid_resync left over and none of its ticks saw a degraded array, the
\* short pattern of raid_resync has sounded exactly once.
C11_OncePerEpisode ==
    (episode.active /\ ~episode.stale /\ ~episode.degraded)
      => episode.shorts = 1

\* C12: a tick whose array_state does not contain "degraded" leaves no stamp
\* of raid_degraded, whatever sync_action is.
C12_DegradedCleared ==
    [][(CheckStep /\ ~IsDegraded(ObsArrayState(obs')))
         => "raid_degraded" \notin DOMAIN last_alert']_vars

\* C13: a tick whose sync_action is resync/recovery/recover with raid_resync
\* out of cooldown sounds short, degraded array or not; a tick whose
\* sync_action is anything else leaves no stamp of raid_resync, degraded
\* array or not.
C13_ResyncIndependent ==
    [][CheckStep =>
         /\ (ObsSyncAction(obs') \in ResyncActions
               /\ DueIn(last_alert, "raid_resync", clock))
              => Beeped(beeps', "raid_resync", "short")
         /\ ObsSyncAction(obs') \notin ResyncActions
              => "raid_resync" \notin DOMAIN last_alert']_vars

\* the beeps of alarm id, in the order they sounded
BeepsOf(out, id) == SelectSeq(out, LAMBDA b : b.id = id)

\* what one "if should_alert(id): buzzer.pattern(pat)" sounds when the alarm
\* state before it is la
AlertBeeps(la, id, pat) ==
    IF DueIn(la, id, clock) THEN <<[id |-> id, pattern |-> pat]>> ELSE <<>>

ObsSmart(o) == OrEmpty(o.smart)

\* C14: on a tick, for every disk d with a known temperature T: T >= 60
\* sounds triple and 50 <= T < 60 sounds short, each exactly when temp_d is
\* out of cooldown; T < 50 sounds nothing and leaves no stamp of temp_d.
C14_TempThresholds ==
    [][CheckStep =>
         \A d \in DOMAIN ObsSmart(obs') :
             TempKey \in DOMAIN ObsSmart(obs')[d] =>
                 LET T == ObsSmart(obs')[d][TempKey]
                     id == TempId(d)
                 IN /\ T >= 60
                         => BeepsOf(beeps', id) = AlertBeeps(last_alert, id, "triple")
                    /\ (T >= 50 /\ T < 60)
                         => BeepsOf(beeps', id) = AlertBeeps(last_alert, id, "short")
                    /\ T < 50
                         => /\ BeepsOf(beeps', id) = <<>>
                            /\ id \notin DOMAIN last_alert']_vars

\* a disk at exactly 50 sounded short while another at exactly 60 sounded triple
C14_Witness ==
    /\ ~obs.raised
    /\ \E d, e \in DOMAIN ObsSmart(obs) :
          /\ DictGet(ObsSmart(obs)[d], TempKey, 0) = 50
          /\ Beeped(beeps, TempId(d), "short")
          /\ DictGet(ObsSmart(obs)[e], TempKey, 0) = 60
          /\ Beeped(beeps, TempId(e), "triple")

\* C15: on a tick, for every disk d of the SMART data: long sounds exactly
\* when one of the three sector counters is above 0 and smart_d is out of
\* cooldown; when none is above 0 nothing sounds for smart_d and no stamp of
\* smart_d is left. The temperature of the disk plays no part.
C15_SmartCounters ==
    [][CheckStep =>
         \A d \in DOMAIN ObsSmart(obs') :
             LET data == ObsSmart(obs')[d]
                 bad == \E k \in {"reallocated_sectors", "pending_sectors",
                                  "uncorrectable_sectors"} :
                            k \in DOMAIN data /\ data[k] > 0
                 id == SmartId(d)
             IN IF bad
                THEN BeepsOf(beeps', id) = AlertBeeps(last_alert, id, "long")
                ELSE /\ BeepsOf(beeps', id) = <<>>
                     /\ id \notin DOMAIN last_alert']_vars

\* one tick sounded both the temperature alarm and the bad-sector alarm of a
\* disk whose only bad counter is not the reallocated one
C15_Witness ==
    /\ ~obs.raised
    /\ \E d \in DOMAIN ObsSmart(obs) :
          /\ DictGet(ObsSmart(obs)[d], "reallocated_sectors", 0) = 0
          /\ Beeped(beeps, SmartId(d), "long")
          /\ BeepedAny(beeps, TempId(d))

\* C16: on a tick, double sounds for power_throttle exactly when bit 0
\* (under-voltage now) or bit 2 (throttled now) of the throttle value is set
\* and power_throttle is out of cooldown; when neither is set nothing sounds
\* and no stamp of power_throttle is left, whatever bits 1, 3 and 16-19 are.
C16_PowerAlarm ==
    [][CheckStep =>
         LET val == obs'.throttle.raw
         IN IF BitSet(val, 0) \/ BitSet(val, 2)
            THEN BeepsOf(beeps', "power_throttle")
                   = AlertBeeps(last_alert, "power_throttle", "double")
            ELSE /\ BeepsOf(beeps', "power_throttle") = <<>>
                 /\ "power_throttle" \notin DOMAIN last_alert']_vars

\* a tick saw under-voltage and throttling only in the "has occurred" bits
\* and stayed silent
C16_Witness ==
    /\ ~obs.raised
    /\ obs.throttle.under_voltage_occurred
    /\ obs.throttle.throttled_occurred
    /\ ~obs.throttle.under_voltage /\ ~obs.throttle.throttled
    /\ beeps = <<>>
    /\ "power_throttle" \notin DOMAIN last_alert

\* the array_state texts that contain "degraded" in some mix of cases
DegradedStates ==
    { <<"c", "l", "e", "a", "n", ",", " ", "d", "e", "g", "r", "a", "d", "e", "d">>,
      <<"D", "e", "g", "r", "a", "d", "e", "d">> }

\* A pages.home.render that ran to its end.
HomeStep == home'.n # home.n /\ ~home'.raised

\* C17: a render that sees sync_action in resync/recovery/recover/check/repair
\* together with an array_state containing "degraded" draws the resync view
\* and no other.
C17_ResyncPriority ==
    [][(/\ HomeStep
        /\ "sync_action" \in DOMAIN home'.status
        /\ "array_state" \in DOMAIN home'.status
        /\ home'.status["sync_action"]
             \in {"resync", "recovery", "recover", "check", "repair"}
        /\ home'.status["array_state"] \in DegradedStates)
         => home'.drawn = <<"resync">>]_vars

\* a degraded array under recovery was drawn as the resync view
C17_Witness ==
    /\ ~home.raised
    /\ "sync_action" \in DOMAIN home.status
    /\ "array_state" \in DOMAIN home.status
    /\ home.status["sync_action"] = "recovery"
    /\ home.status["array_state"] \in DegradedStates
    /\ home.drawn = <<"resync">>

\* the one view the decision order names for the status st
ExpectedView(st) ==
    IF /\ "sync_action" \in DOMAIN st
       /\ st["sync_action"] \in {"resync", "recovery", "recover", "check", "repair"}
    THEN "resync"
    ELSE IF "array_state" \in DOMAIN st /\ st["array_state"] \in DegradedStates
    THEN "degraded"
    ELSE "clean"

\* C18: every render draws exactly one view, the first that matches: resync
\* if sync_action is present and in resync/recovery/recover/check/repair;
\* else degraded if array_state contains "degraded" in any case; else clean,
\* also for an empty status and for idle, frozen or any other sync_action.
C18_OneViewFirstMatch ==
    [][HomeStep => home'.drawn = <<ExpectedView(home'.status)>>]_vars

\* an array_state spelled "Degraded" with a frozen sync was drawn as degraded
C18_Witness ==
    /\ ~home.raised
    /\ "sync_action" \in DOMAIN home.status
    /\ "array_state" \in DOMAIN home.status
    /\ home.status["sync_action"] = "frozen"
    /\ home.status["array_state"] = <<"D", "e", "g", "r", "a", "d", "e", "d">>
    /\ home.drawn = <<"degraded">>

\* C19: a press stamps last_nav_at with the monotonic time; its assignment
\* to current_page turns -1 into 0 and i into (i+1) mod 5 and never gives
\* -1; so while browsing, current_page is the number of presses of the
\* stretch, minus one, mod 5: 5 presses on from page 0 it is page 0 again.
C19_ButtonNavigation ==
    /\ [][/\ (btn.pc = "idle" /\ btn'.pc = "test") => last_nav_at' = mono
          /\ (btn.pc = "set" /\ btn'.pc = "idle")
               => /\ current_page' = IF current_page = -1 THEN 0
                                     ELSE (current_page + 1) % 5
                  /\ current_page' # -1]_vars
    /\ [](current_page # -1 => current_page = (presses - 1) % 5)

\* five presses after the press that reached page 0, page 0 is back
C19_Witness ==
    /\ btn.pc = "idle"
    /\ presses = 6
    /\ current_page = 0

\* C20: with the button left alone, a tick whose now_mono is NAV_TIMEOUT or
\* more past last_nav_at has current_page at -1 once the timeout test is
\* done, and has handed the home page to display.render when it goes to
\* sleep; and browsing always leads to such a tick.
C20_IdleTimeout ==
    /\ [](/\ (/\ loop.pc \in {"frame", "snap_page", "snap_nav", "render", "sleep"}
              /\ loop.now_mono - last_nav_at >= NavTimeout)
               => current_page = -1
          /\ (loop.pc = "sleep" /\ loop.now_mono - last_nav_at >= NavTimeout)
               => shown.target = -1)
    /\ (current_page # -1)
         ~> (current_page = -1 /\ loop.pc = "sleep" /\ shown.target = -1)

\* the tick that read the clock exactly NAV_TIMEOUT after the last press
\* has gone home and rendered the home page
C20_Witness ==
    /\ loop.pc = "sleep"
    /\ loop.now_mono - last_nav_at = NavTimeout
    /\ current_page = -1
    /\ presses = 0
    /\ shown.target = -1
    /\ shown.n = 1

\* C21: current_page is -1 at start; afterwards only the idle-timeout reset
\* of the loop makes it -1, and only the assignment of a button press takes
\* it away from -1, so without a press Home stays Home on every tick.
C21_HomeStable ==
    /\ current_page = -1
    /\ [][/\ (current_page # -1 /\ current_page' = -1)
               => (loop.pc = "reset" /\ loop'.pc = "frame")
          /\ (current_page = -1 /\ current_page' # -1)
               => (btn.pc = "set" /\ btn'.pc = "idle")]_vars

\* the loop has gone back to Home after a finished press, and a later tick
\* finds it still there
C21_Witness ==
    /\ current_page = -1
    /\ last_nav_at > 0
    /\ btn.pc = "idle"
    /\ loop.pc = "sleep"
    /\ loop.now_mono - last_nav_at > NavTimeout
    /\ shown.target = -1

\* C22: the snapshot (page, nav_at) of a tick is a consistent pair: at some
\* instant current_page was page and last_nav_at was nav_at with no button
\* press under way.
C22_SnapshotConsistent ==
    loop.pc = "render" => seen

\* C28: when _fetch raises during get(k,t) the cache is left exactly as it
\* was: nothing is stored for k, a stale entry of k and its timestamp stay,
\* no other key of any source changes; and the next get(k,t) of the same key
\* invokes _fetch again
C28_RaisedFetchNotCached ==
    [][GetStep =>
         /\ call'.raised =>
               /\ cache' = cache
               /\ timestamps' = timestamps
               /\ call'.fetched = {<<call'.src, call'.key>>}
         /\ (/\ call.op = "get" /\ call.raised
             /\ call'.src = call.src /\ call'.key = call.key
             /\ call'.ttl = call.ttl)
              => call'.fetched = {<<call.src, call.key>>}]_vars

\* a get raised over a stale entry, which is still there with its old stamp
C28_Witness ==
    /\ call.op = "get" /\ call.raised /\ call.had
    /\ call.key \in DOMAIN cache[call.src]
    /\ timestamps[call.src][call.key] < clock

\* C29: the warning and the critical temperature of a disk share the id
\* temp_<disk> and its cooldown: on a tick that finds the disk at 50 or more
\* while temp_<disk> is stamped and younger than the cooldown, no temperature
\* pattern sounds for the disk and the stamp stays, so an escalation to 60 or
\* more inside the cooldown of the warning sounds no triple; a triple over an
\* existing stamp sounds only when the cooldown has passed since it; and no
\* tick sounds more than one temperature pattern for a disk
C29_SharedTempCooldown ==
    [][CheckStep =>
         \A d \in Disks :
             LET id == TempId(d)
                 T == DictGet(DictGet(ObsSmart(obs'), d, EmptyMap), TempKey, 0)
             IN /\ Len(BeepsOf(beeps', id)) <= 1
                /\ (/\ T >= 50
                    /\ id \in DOMAIN last_alert
                    /\ clock - last_alert[id] < cooldown)
                     => /\ BeepsOf(beeps', id) = <<>>
                        /\ id \in DOMAIN last_alert'
                        /\ last_alert'[id] = last_alert[id]
                /\ (Beeped(beeps', id, "triple") /\ id \in DOMAIN last_alert)
                     => clock - last_alert[id] >= cooldown]_vars

\* a disk whose warning sounded is found at 60 or more inside the cooldown of
\* that warning, and the tick is silent for it
C29_Witness ==
    /\ ~obs.raised
    /\ \E d \in Disks :
          /\ DictGet(DictGet(ObsSmart(obs), d, EmptyMap), TempKey, 0) >= 60
          /\ TempId(d) \in DOMAIN last_alert
          /\ sounded[TempId(d)] = "short"
          /\ clock - last_alert[TempId(d)] < cooldown
          /\ BeepsOf(beeps, TempId(d)) = <<>>

\* C23: an exception raised by the selected page function is caught inside the
\* tick: the step of the try block always ends at the sleep with main still
\* running; when the page function raised, the display holds the two-line
\* overlay "OLED ERR" plus the first 20 characters of the error text; when it
\* did not raise (also right after a tick that did), the page chosen is shown
\* with no overlay
C23_RenderErrorCaught ==
    [][(loop.pc = "render" /\ loop' # loop) =>
          /\ loop'.pc = "sleep"
          /\ life'.phase = "running"
          /\ shown'.n # shown.n
          /\ shown'.error =>
                /\ Len(shown'.overlay) = 2
                /\ shown'.overlay[1] = "OLED ERR"
                /\ Len(shown'.overlay[2]) =
                      (IF Len(shown'.text) > 20 THEN 20 ELSE Len(shown'.text))
                /\ \A i \in 1..Len(shown'.overlay[2]) :
                      shown'.overlay[2][i] = shown'.text[i]
          /\ ~shown'.error =>
                /\ shown'.overlay = <<>>
                /\ shown'.target = RenderTarget(loop.page, loop.now_mono, loop.nav_at)]_vars

\* the tick after one whose browse page raised a long message is about to render
C23_Witness ==
    /\ shown.error
    /\ Len(shown.text) > 20
    /\ shown.target # HomePage
    /\ loop.pc = "render"
    /\ life.phase = "running"

\* the finally block of the script is at work
InFinally == life.phase \in {"finally", "fin_buzzer", "fin_button"}

\* C24: on shutdown - after a terminate signal was handled, or when main was
\* left and the finally block is through - the cleanup step of every device
\* that was initialized has been attempted, whichever step raised
C24_AllCleanupAttempted ==
    ((life.signalled \/ life.phase = "exited") /\ ~InFinally)
        => Held(life) \subseteq life.tried

\* C25: when ctx.mdadm.get("name") returned nothing, main shows the fatal
\* error, clears the display and returns without entering the loop: no button
\* callback is registered, no buzzer is created, no alarm is evaluated and no
\* page is rendered, and the script ends with the display cleared unless the
\* clearing itself failed
C25_FatalStartup ==
    (life.phase # "start" /\ ~life.found) =>
        /\ ~life.button
        /\ ~life.buzzer
        /\ life.phase \in {"fatal", "finally", "fin_buzzer", "fin_button", "exited"}
        /\ loop.pc \in {"boot", "dead"}
        /\ loop.done = <<>>
        /\ shown = NothingShown
        /\ life.phase = "fatal" => life.screen = "fatal"
        /\ life.screen \in {"fatal", "blank"}
        /\ (life.phase = "exited" /\ "display" \notin life.failed)
              => (life.screen = "blank" /\ life.tried = {"display"})

\* the script has ended after the fatal path, untouched by a signal, with the
\* display cleared
C25_Witness ==
    /\ ~life.found
    /\ life.phase = "exited"
    /\ ~life.signalled
    /\ life.screen = "blank"
    /\ life.tried = {"display"}
    /\ loop.pc = "boot"

\* C30: an exception inside alarms.check is not caught by the loop: the tick
\* in which it is raised renders nothing and control goes to the finally
\* block of the script, and once main is left no step of a tick is taken and
\* nothing more is rendered
C30_AlarmFailureEndsLoop ==
    [][/\ (/\ loop.pc = "alarms"
           /\ loop'.done = <<"alarms">>
           /\ loop'.pc # StepAfter("alarms"))
            => /\ loop'.pc = "dead"
               /\ shown' = shown
               /\ life'.phase = "finally"
       /\ loop.pc = "dead"
            => /\ loop' = loop
               /\ shown' = shown
               /\ frame' = frame
               /\ current_page' = current_page
               /\ life'.phase \in {"finally", "fin_buzzer", "fin_button", "exited"}]_vars

\* the script has ended, with all three devices cleaned up, after alarms.check
\* raised in a tick that followed a rendered one; no signal was involved
C30_Witness ==
    /\ loop.pc = "dead"
    /\ loop.done = <<"alarms">>
    /\ ~life.signalled
    /\ life.phase = "exited"
    /\ life.tried = Devices
    /\ shown.n = 1

\* the order of the steps of a tick
TickOrder == <<"alarms", "timeout", "frame", "snapshot", "render">>

\* C26: in every tick the steps run in the order alarm evaluation, idle-timeout
\* reset, frame advance, (page, nav_at) snapshot, page selection and render:
\* the steps taken so far are always a prefix of that order, and a tick that
\* reaches its sleep has taken each once, whatever the value of current_page
C26_TickOrder ==
    /\ \E k \in 0..Len(TickOrder) : loop.done = SubSeq(TickOrder, 1, k)
    /\ loop.pc = "sleep" => loop.done = TickOrder
    /\ loop.pc = "render" => loop.done = SubSeq(TickOrder, 1, 4)

\* a tick that rendered a browse page is at its sleep
C26_Witness ==
    /\ loop.pc = "sleep"
    /\ current_page \in 0..(NumPages - 1)
    /\ shown.target \in 0..(NumPages - 1)
    /\ Len(loop.done) = 5

\* C27: under every interleaving of presses with the loop, current_page stays
\* in -1..N-1, a browse page is rendered only with the snapshot's index in
\* 0..N-1, and a snapshot page of -1 renders the home page
C27_PageInRange ==
    /\ current_page \in -1..(NumPages - 1)
    /\ shown.target \in -1..(NumPages - 1)
    /\ loop.page \in -1..(NumPages - 1)
    /\ (loop.pc = "sleep" /\ loop.page = -1) => shown.target = -1
    /\ (loop.pc = "sleep" /\ shown.target # -1) =>
          (loop.page \in 0..(NumPages - 1) /\ shown.target = loop.page)

\* a press that tested current_page before the reset writes after it
C27_Witness ==
    /\ btn.pc = "set"
    /\ ~btn.was_home
    /\ current_page = -1
    /\ loop.pc \in {"frame", "snap_page"}
====
